---- MODULE Spec2Model ----
(***************************************************************************)
(* Model of the JetDB backend (backend/main.py): the upload pipeline       *)
(* (upload_file, parallel_upload_and_convert and the two worker-pool       *)
(* tasks), the background analyzer, delete_dataset and merge_datasets,     *)
(* over an object store (blobs) and a metadata table (datasets); the       *)
(* dataset endpoints with their ownership check, validate_sql_safety, the  *)
(* rate limiter (backend/rate_limiter.py), the exception handlers          *)
(* (backend/error_handlers.py), the spreadsheet-state endpoints            *)
(* (backend/state_endpoints.py), the worker pool and its shutdown, the     *)
(* request-id middleware, and increment_upload_count                       *)
(* (backend/supabase_helpers.py).                                          *)
(*                                                                         *)
(* Strings the code transforms (file names, blob URLs) are sequences of    *)
(* tokens, so that str.replace and str.split act on them as in the code.   *)
(* A remote call (object store, metadata store, DuckDB) is a               *)
(* nondeterministic choice over its outcomes.                              *)
(***************************************************************************)
EXTENDS Integers, Sequences, FiniteSets, TLC

VARIABLES
    datasets,   \* the 'datasets' table: dataset id -> record, or NoRecord
    blobs,      \* the container: the blobs that exist, each a name and a kind
    fileData,   \* dataset id -> the table held by the blobs of that id
    upload,     \* request slot -> state of the POST /upload coroutine
    analysis,   \* dataset id -> state of analyze_dataset_background
    firstRun,   \* dataset id -> the record as the first analyzer run left it
    response,   \* the answer to the latest call of a dataset endpoint
    sqlcheck,   \* a call of validate_sql_safety: its argument and its result
    limiter,    \* the rate limiter's counters of the current window
    states,     \* the 'spreadsheet_states' table: a set of rows
    pool,       \* the worker pool: its tasks and the state of its shutdown
    logst,      \* the global log-record factory and the requests using it
    usage       \* the 'user_usage' table and the calls that count uploads

\* What the services beside the dataset handlers keep.

\* What the request handlers outside the upload pipeline keep or answer.
apiVars == <<response, sqlcheck, limiter, states, pool, logst, usage>>

vars == <<datasets, blobs, fileData, upload, analysis, firstRun, apiVars>>

----------------------------------------------------------------------------
(* Bounds *)

MaxUploads == 1     \* POST /upload requests in one behaviour
MaxMerges == 2      \* POST /datasets/merge calls that get as far as an id
MaxRuns == 2        \* runs of the analyzer per record under SpecRetry
MaxRequests == 11   \* rate-limited requests admitted in one behaviour
MaxTasks == 6       \* tasks submitted to the worker pool in one behaviour
MaxInFlight == 3    \* requests that go through the request-id middleware
MaxCalls == 3       \* calls of increment_upload_count in one behaviour

----------------------------------------------------------------------------
(* Program constants *)

SKIP_CSV_THRESHOLD_MB == 100
MAX_UPLOAD_GB == 10
MiB == 1048576
CONTAINER_NAME == "jetdb-datasets/"
MAX_WORKERS == 4                \* ThreadPoolExecutor(max_workers=4)
UPLOAD_RATE_LIMIT == 10         \* "10/hour"
AI_QUERY_RATE_LIMIT == 50       \* "50/hour"
SQL_QUERY_RATE_LIMIT == 200     \* "200/hour"

----------------------------------------------------------------------------
(* Inputs *)

Users == {"u1", "u2"}

\* uuid4 values: one fresh id per upload slot and per merge.
IdStr == <<"d1", "d2", "d3", "d4", "d5", "d6">>
UploadSlots == 1 .. MaxUploads
MergeSlots == (MaxUploads + 1) .. (MaxUploads + MaxMerges)
DatasetIds == {IdStr[i] : i \in 1 .. (MaxUploads + MaxMerges)}

\* File names as token sequences.
FileNames == { <<"a", ".csv">>, <<"a", ".parquet", ".csv">>, <<"a", ".txt">> }
MergedNames == { <<"m">> }

\* The dataset_ids lists of a merge request.
MergeLists ==
    {<<a>> : a \in DatasetIds} \cup {<<a, b>> : a, b \in DatasetIds}

\* A size of mb MiB and rem bytes (0 <= rem < 2^20).
Size(mb, rem) == [mb |-> mb, rem |-> rem]
Sizes == { Size(0, 0), Size(99, 1048575), Size(100, 0), Size(100, 1),
           Size(10240, 1) }

\* What DuckDB and PyArrow read from an uploaded file: the names of the header
\* line as they stand in the file, each a sequence of characters, and the
\* number of rows. A file with the header "1x" and no row; a file with the
\* header "x,y" and two rows.
Table(cols, rows) == [cols |-> cols, rows |-> rows]
Tables == { Table(<< <<"1", "x">> >>, 0), Table(<< <<"x">>, <<"y">> >>, 2) }

NoRecord == [status |-> "absent"]
NoData == Table(<<>>, 0)
NULL == "null"

----------------------------------------------------------------------------
(* String helpers *)

\* str.replace(from, to) on a token sequence: every occurrence is replaced.
Replace(s, from, to) == [i \in DOMAIN s |-> IF s[i] = from THEN to ELSE s[i]]

\* str.endswith
EndsWith(s, tok) == Len(s) > 0 /\ s[Len(s)] = tok

\* s.split(sep)[-1]: what follows the last occurrence of sep (all of s if none).
SplitLast(s, sep) ==
    LET idx == {i \in DOMAIN s : s[i] = sep}
        last == IF idx = {} THEN 0 ELSE CHOOSE i \in idx : \A j \in idx : j <= i
    IN  SubSeq(s, last + 1, Len(s))

\* Blob name f"{dataset_id}/{filename}" and the URL blob_client.url gives it.
BlobName(id, fname) == <<id, "/">> \o fname
BlobUrl(name) == <<"https://acct/", CONTAINER_NAME>> \o name

\* How a reader of a URL (DuckDB, delete_from_blob) finds the blob name:
\* blob_path.split(f"{CONTAINER_NAME}/")[-1]
BlobNameOfUrl(url) == SplitLast(url, CONTAINER_NAME)

----------------------------------------------------------------------------
(* Object store *)

Blob(name, kind) == [name |-> name, kind |-> kind]
BlobExists(store, name) == \E b \in store : b.name = name

\* upload_blob(data, overwrite=True)
PutBlob(store, name, kind) ==
    {b \in store : b.name # name} \cup {Blob(name, kind)}

\* blob_client.delete_blob()
RemoveBlob(store, name) == {b \in store : b.name # name}

----------------------------------------------------------------------------
(* upload_file: validation and path selection *)

\* file_size_bytes == 0
SizeIsEmpty(size) == size.mb = 0 /\ size.rem = 0

\* file_size_bytes > 10 * 1024 * 1024 * 1024
SizeTooLarge(size) ==
    \/ size.mb > MAX_UPLOAD_GB * 1024
    \/ size.mb = MAX_UPLOAD_GB * 1024 /\ size.rem > 0

SkipCsvUpload_AtOrAbove(size) == size.mb >= SKIP_CSV_THRESHOLD_MB

\* skip_csv_upload = file_size_mb > SKIP_CSV_THRESHOLD_MB,
\* with file_size_mb = file_size_bytes / (1024 * 1024)
SkipCsvUpload(size) ==
    \/ size.mb > SKIP_CSV_THRESHOLD_MB
    \/ size.mb = SKIP_CSV_THRESHOLD_MB /\ size.rem > 0

\* parquet_filename = filename.replace('.csv', '.parquet')
ParquetFilename(fname) == Replace(fname, ".csv", ".parquet")

SkipNeedsFallback_Always(parquet_task) == TRUE

\* Skip-backup path, "if parquet_url: ... else:": the CSV is uploaded only
\* when the conversion gave no URL.
SkipNeedsFallback(parquet_task) == parquet_task # "url"

PipelineResult_AlwaysParquet(id, fname, parquet_task) ==
    [url |-> BlobUrl(BlobName(id, Replace(fname, ".csv", ".parquet"))),
     format |-> "parquet"]

\* The (url, storage_format) parallel_upload_and_convert returns once the
\* tasks it waits for are done: Parquet if the conversion gave a URL, else CSV.
PipelineResult(id, fname, parquet_task) ==
    IF parquet_task = "url"
    THEN [url |-> BlobUrl(BlobName(id, ParquetFilename(fname))), format |-> "parquet"]
    ELSE [url |-> BlobUrl(BlobName(id, fname)), format |-> "csv"]

\* datetime.now().isoformat() as read by the request that creates the record
\* with this id: one value per request.
Now(id) == <<"t", id>>

\* The record upload_file inserts.
UploadRecord(user, fname, res, now) ==
    [ status |-> "analyzing", user_id |-> user, filename |-> fname,
      blob_path |-> res.url, storage_format |-> res.format,
      row_count |-> 0, column_count |-> 0, columns |-> <<>>,
      error_message |-> NULL, created_at |-> now, updated_at |-> now ]

\* error_handlers.ERROR_MESSAGES, the entries the handlers here raise.
ErrorCodes ==
    {"INVALID_FILE_TYPE", "INVALID_FILE_SIZE", "DATASET_NOT_FOUND",
     "STATE_NOT_FOUND", "FORBIDDEN_DATASET_ACCESS", "INTERNAL_ERROR"}
ERROR_MESSAGES ==
    [c \in ErrorCodes |->
        CASE c = "INVALID_FILE_TYPE" ->
                "Invalid file type. Only CSV, Excel, and Parquet files are allowed"
          [] c = "INVALID_FILE_SIZE" -> "File size exceeds maximum limit of 10GB"
          [] c = "DATASET_NOT_FOUND" -> "Dataset not found"
          [] c = "STATE_NOT_FOUND" -> "Spreadsheet state not found"
          [] c = "FORBIDDEN_DATASET_ACCESS" ->
                "You do not have permission to access this dataset"
          [] c = "INTERNAL_ERROR" -> "An internal error occurred. Please try again"]

\* build_error_response: the body jetdb_exception_handler sends for a
\* JetDBException (the request id aside).
BuildErrorResponse(error_code, status_code, detail) ==
    [error |-> [code |-> error_code, message |-> detail, status |-> status_code]]

\* The global log-record factory as a log call of a handler finds it.
\* add_request_id_middleware installs, for the time of call_next, a factory
\* that sets record.request_id, and puts back the factory it found; the
\* factory is one per process, so what a handler finds depends on the other
\* requests in flight (see the middleware below):
\*   "base"          no installed factory sets request_id;
\*   "stamped"       the installed factory sets it, the one put back does not;
\*   "stamped_after" the installed factory and the one put back both set it.
LogContexts == {"base", "stamped", "stamped_after"}

\* logger.warning(..., extra={"request_id": ...}): Logger.makeRecord raises
\* KeyError("Attempt to overwrite 'request_id' in LogRecord") when the record
\* the factory made already has the attribute.
ExtraCollides(request_id_set) == request_id_set

\* generic_exception_handler, the handler of Exception, runs outside the
\* middleware, after the middleware put the old factory back: it logs with
\* extra request_id and answers 500 INTERNAL_ERROR; when its log call raises,
\* the server answers 500 with the text 'Internal Server Error'.
GenericExceptionHandler(ctx) ==
    IF ExtraCollides(ctx = "stamped_after")
    THEN [code |-> 500, detail |-> "Internal Server Error"]
    ELSE [code |-> 500, detail |-> "INTERNAL_ERROR"]

\* jetdb_exception_handler, the handler of JetDBException, runs inside the
\* middleware: it logs with extra request_id, then answers the exception's
\* status with build_error_response; the KeyError of its log call goes to
\* generic_exception_handler.
JetdbExceptionHandler(error_code, status_code, ctx) ==
    IF ExtraCollides(ctx # "base")
    THEN GenericExceptionHandler(ctx)
    ELSE [code |-> status_code, detail |-> error_code]

\* The body of an answer. A JetDBException (raised with an error code; its
\* detail is the ERROR_MESSAGES entry) is sent by jetdb_exception_handler,
\* INTERNAL_ERROR by generic_exception_handler with its own text, an
\* HTTPException as {"detail": ...}, the server's own 500 as plain text.
ResponseBody(code, detail) ==
    IF detail = "INTERNAL_ERROR"
    THEN BuildErrorResponse(detail, code,
            "An unexpected error occurred. Please try again later.")
    ELSE IF detail \in ErrorCodes
    THEN BuildErrorResponse(detail, code, ERROR_MESSAGES[detail])
    ELSE IF detail = "Internal Server Error" THEN [text |-> detail]
    ELSE IF code = 200 THEN [success |-> TRUE]
    ELSE [detail |-> detail]

IdleUpload ==
    [ pc |-> "idle", user |-> NULL, filename |-> <<>>, size |-> Size(0, 0),
      temp |-> FALSE, path |-> "none", csv_task |-> "none",
      parquet_task |-> "none", result |-> "none", code |-> 0, detail |-> NULL,
      body |-> <<>> ]

\* No endpoint call has been answered yet.
NoResponse ==
    [ op |-> "none", user |-> NULL, ids |-> <<>>, code |-> 0, detail |-> NULL,
      data |-> {} ]

\* The rate limiter: the endpoints it guards, who calls them and from where,
\* and the keys it counts under.
Endpoints == {"upload", "query_natural", "query_sql"}
Ips == {"ip1", "ip2"}
Clients ==
    { [user |-> "u1", ip |-> "ip1"], [user |-> "u1", ip |-> "ip2"],
      [user |-> "u2", ip |-> "ip1"] }
Keys == {<<"user:", u>> : u \in Users} \cup {<<"ip:", i>> : i \in Ips}

\* A new window: nothing counted, nothing answered.
NoHits ==
    [ hits |-> [e \in Endpoints |-> [k \in Keys |-> 0]],
      served |-> [e \in Endpoints |-> [u \in Users |-> 0]],
      answer |-> "none" ]

\* validate_sql_safety has not been called.
NoCheck == [pc |-> "none", sql |-> <<>>, is_safe |-> FALSE, error_msg |-> <<>>]

\* executor = ThreadPoolExecutor(max_workers=4): no task submitted, not shut
\* down. A task is the function run_in_executor was given and how far it is.
PoolTasks == 1 .. MaxTasks
IdlePool ==
    [ task |-> [t \in PoolTasks |-> [fn |-> "none", at |-> "none"]], shutdown |-> "no", pending |-> 0 ]

\* The logging module after start-up: the record factory is LogRecord itself
\* (0 here; the factory a request installs carries the number of the request),
\* and no request is being handled. A request keeps the factory it found
\* (old_factory), the request id of its last log record (-1: none so far,
\* 0: 'startup', the RequestIdFilter default) and the detail of its answer.
LogRecord == 0
Requests == 1 .. MaxInFlight
IdleLogging ==
    [ factory |-> LogRecord,
      req |-> [r \in Requests |->
                  [pc |-> "new", old_factory |-> LogRecord, logged |-> -1,
                   answer |-> "none"]] ]

\* 'user_usage' without rows, and no call of increment_upload_count begun.
\* A call runs in one server process; the table is shared by all of them.
Procs == {"p1", "p2"}
Calls == 1 .. MaxCalls
NoUsage ==
    [ rows |-> [u \in Users |-> <<>>],
      call |-> [c \in Calls |->
                   [pc |-> "none", proc |-> NULL, user |-> NULL,
                    current_count |-> -1, ret |-> -1]],
      store_error |-> FALSE ]

\* The services beside the dataset handlers at rest.
SvcIdle ==
    /\ states = {}
    /\ pool = IdlePool
    /\ logst = IdleLogging
    /\ usage = NoUsage

IdleAnalysis ==
    [ pc |-> "none", url |-> <<>>, user |-> NULL, failed_step |-> "none",
      err_update |-> "none", runs |-> 0 ]

Init ==
    /\ datasets = [d \in DatasetIds |-> NoRecord]
    /\ blobs = {}
    /\ fileData = [d \in DatasetIds |-> NoData]
    /\ upload = [r \in UploadSlots |-> IdleUpload]
    /\ analysis = [d \in DatasetIds |-> IdleAnalysis]
    /\ firstRun = [d \in DatasetIds |-> NoRecord]
    /\ response = NoResponse
    /\ sqlcheck = NoCheck
    /\ limiter = NoHits
    /\ SvcIdle

\* The request has been answered: the coroutine's locals are gone (the tasks
\* it submitted to the pool and their arguments stay), and the finally block
\* has unlinked the temporary file.
Answered(u, result, code, detail) ==
    [u EXCEPT !.pc = "done", !.user = NULL, !.size = Size(0, 0), !.temp = FALSE,
              !.result = result, !.code = code, !.detail = detail,
              !.body = ResponseBody(code, detail)]

\* POST /upload up to the first await inside parallel_upload_and_convert.
\* Slots only name the requests: the k-th request to arrive takes slot k.
UploadStart(r) ==
    /\ upload[r].pc = "idle"
    /\ \A q \in UploadSlots : q < r => upload[q].pc # "idle"
    /\ \E user \in Users, fname \in FileNames, size \in Sizes, table \in Tables,
          ctx \in LogContexts :
        LET u == [upload[r] EXCEPT !.user = user, !.filename = fname, !.size = size]
            rejected(detail) == Answered(u, "rejected", 400, detail)
            invalid(error_code) ==
                LET a == JetdbExceptionHandler(error_code, 400, ctx)
                IN  Answered(u, "rejected", a.code, a.detail)
        IN  IF ~EndsWith(fname, ".csv")
            THEN /\ upload' = [upload EXCEPT ![r] = invalid("INVALID_FILE_TYPE")]
                 /\ UNCHANGED fileData
            ELSE IF SizeIsEmpty(size)
            THEN /\ upload' = [upload EXCEPT ![r] = rejected("File is empty")]
                 /\ UNCHANGED fileData
            ELSE IF SizeTooLarge(size)
            THEN /\ upload' = [upload EXCEPT ![r] = invalid("INVALID_FILE_SIZE")]
                 /\ UNCHANGED fileData
            ELSE /\ fileData' = [fileData EXCEPT ![IdStr[r]] = table]
                 /\ upload' = [upload EXCEPT ![r] =
                        IF SkipCsvUpload(size)
                        THEN [u EXCEPT !.pc = "skip_convert", !.temp = TRUE,
                                       !.path = "skip", !.parquet_task = "running"]
                        ELSE [u EXCEPT !.pc = "gather", !.temp = TRUE,
                                       !.path = "parallel", !.csv_task = "running",
                                       !.parquet_task = "running"]]
    /\ UNCHANGED <<datasets, blobs, analysis, firstRun, apiVars>>

\* Worker-pool task convert_csv_to_parquet_streaming: returns the URL of the
\* uploaded Parquet blob, or (None, None) when the conversion or the upload
\* of its result raised.
ConvertTask(r) ==
    /\ upload[r].parquet_task = "running"
    /\ \E outcome \in {"ok", "conversion_failed", "upload_failed"} :
        IF outcome = "ok"
        THEN /\ blobs' = PutBlob(blobs,
                    BlobName(IdStr[r], ParquetFilename(upload[r].filename)), "parquet")
             /\ upload' = [upload EXCEPT ![r].parquet_task = "url"]
        ELSE /\ upload' = [upload EXCEPT ![r].parquet_task = "failed"]
             /\ UNCHANGED blobs
    /\ UNCHANGED <<datasets, fileData, analysis, firstRun, apiVars>>

\* Worker-pool task upload_to_blob_streaming(dataset_id, temp_path, filename):
\* returns the URL or raises.
CsvUploadTask(r) ==
    /\ upload[r].csv_task = "running"
    /\ \E outcome \in {"ok", "upload_failed"} :
        IF outcome = "ok"
        THEN /\ blobs' = PutBlob(blobs, BlobName(IdStr[r], upload[r].filename), "csv")
             /\ upload' = [upload EXCEPT ![r].csv_task = "url"]
        ELSE /\ upload' = [upload EXCEPT ![r].csv_task = "exc"]
             /\ UNCHANGED blobs
    /\ UNCHANGED <<datasets, fileData, analysis, firstRun, apiVars>>

InsertAndRespond_ScheduleAnyway(r, res) ==
    \E outcome \in {"ok", "insert_failed"} :
        /\ analysis' = [analysis EXCEPT ![IdStr[r]] =
                [IdleAnalysis EXCEPT !.pc = "scheduled", !.url = res.url,
                                     !.user = upload[r].user, !.runs = 1]]
        /\ IF outcome = "ok"
           THEN /\ datasets' = [datasets EXCEPT ![IdStr[r]] =
                        UploadRecord(upload[r].user, upload[r].filename, res,
                                     Now(IdStr[r]))]
                /\ upload' = [upload EXCEPT ![r] =
                        Answered(upload[r], res.format, 200, "success")]
           ELSE /\ upload' = [upload EXCEPT ![r] =
                        Answered(upload[r], res.format, 500, "Upload failed")]
                /\ UNCHANGED datasets

\* The rest of upload_file after parallel_upload_and_convert returned res:
\* insert the record, schedule the analysis, answer; the insert may raise.
InsertAndRespond(r, res) ==
    \E outcome \in {"ok", "insert_failed"} :
        IF outcome = "ok"
        THEN /\ datasets' = [datasets EXCEPT ![IdStr[r]] =
                    UploadRecord(upload[r].user, upload[r].filename, res,
                                 Now(IdStr[r]))]
             /\ analysis' = [analysis EXCEPT ![IdStr[r]] =
                    [IdleAnalysis EXCEPT !.pc = "scheduled", !.url = res.url,
                                         !.user = upload[r].user, !.runs = 1]]
             /\ upload' = [upload EXCEPT ![r] =
                    Answered(upload[r], res.format, 200, "success")]
        ELSE /\ upload' = [upload EXCEPT ![r] =
                    Answered(upload[r], res.format, 500, "Upload failed")]
             /\ UNCHANGED <<datasets, analysis>>

\* Skip-backup path, the conversion is done: answer with Parquet, or start the
\* fallback upload of the CSV.
SkipAfterConvert(r) ==
    /\ upload[r].pc = "skip_convert"
    /\ upload[r].parquet_task \in {"url", "failed"}
    /\ IF ~SkipNeedsFallback(upload[r].parquet_task)
       THEN InsertAndRespond(r, PipelineResult(IdStr[r], upload[r].filename, "url"))
       ELSE /\ upload' = [upload EXCEPT ![r].pc = "skip_csv",
                                        ![r].csv_task = "running"]
            /\ UNCHANGED <<datasets, analysis>>
    /\ UNCHANGED <<blobs, fileData, firstRun, apiVars>>

\* Skip-backup path, the fallback upload is done.
SkipAfterCsv(r) ==
    /\ upload[r].pc = "skip_csv"
    /\ upload[r].csv_task \in {"url", "exc"}
    /\ IF upload[r].csv_task = "url"
       THEN InsertAndRespond(r, PipelineResult(IdStr[r], upload[r].filename, "failed"))
       ELSE /\ upload' = [upload EXCEPT ![r] =
                    Answered(upload[r], "raised", 500, "Upload failed")]
            /\ UNCHANGED <<datasets, analysis>>
    /\ UNCHANGED <<blobs, fileData, firstRun, apiVars>>

\* Parallel path: asyncio.gather(csv_task, parquet_task) raises as soon as the
\* CSV upload raised, and returns when both tasks are done.
GatherDone(r) ==
    /\ upload[r].pc = "gather"
    /\ \/ /\ upload[r].csv_task = "exc"
          /\ upload' = [upload EXCEPT ![r] =
                Answered(upload[r], "raised", 500, "Upload failed")]
          /\ UNCHANGED <<datasets, analysis>>
       \/ /\ upload[r].csv_task = "url"
          /\ upload[r].parquet_task \in {"url", "failed"}
          /\ InsertAndRespond(r, PipelineResult(IdStr[r], upload[r].filename,
                                                upload[r].parquet_task))
    /\ UNCHANGED <<blobs, fileData, firstRun, apiVars>>

----------------------------------------------------------------------------
(* analyze_dataset_background *)

\* The 'ready' update: row_count, column_count, columns and status together,
\* and no other column.
ReadyUpdate(rec, table) ==
    [rec EXCEPT !.row_count = table.rows, !.column_count = Len(table.cols),
                !.columns = table.cols, !.status = "ready"]

ErrorUpdate_StatusKept(rec) == rec

\* The 'error' update of the exception handler: the status and nothing else.
ErrorUpdate(rec) == [rec EXCEPT !.status = "error"]

Swallowed_CloseOnly(site) == site = "close"

\* The calls that sit in their own "try: ... except: pass": the 'error'
\* update of the handler and conn.close() of the finally block.
Swallowed(site) == site \in {"error_update", "close"}

\* How the function ends after the handler and the finally block ran: an
\* exception of a call that is not swallowed leaves the function.
AnalyzerExit(err_update, close) ==
    IF \/ err_update = "failed" /\ ~Swallowed("error_update")
       \/ close = "failed" /\ ~Swallowed("close")
    THEN "raised"
    ELSE "returned"

\* Connection set-up, COUNT(*) and the column read. They only read the blob
\* behind blob_url, whose contents never change, so the values the later
\* update writes are those of fileData. A read of a missing blob raises.
AnalyzeRead(d) ==
    /\ analysis[d].pc = "scheduled"
    /\ \E step \in {"none", "connect", "count", "columns"} :
        /\ step = "none" => BlobExists(blobs, BlobNameOfUrl(analysis[d].url))
        /\ analysis' = [analysis EXCEPT ![d].failed_step = step,
                ![d].pc = IF step = "none" THEN "update_ready" ELSE "on_error"]
    /\ UNCHANGED <<datasets, blobs, fileData, upload, firstRun, apiVars>>

\* update({...}).eq('id', dataset_id).eq('user_id', user_id).execute(): the
\* request may be lost, be applied and answered, or be applied while the
\* client still raises (time-out or unreadable answer). On success the
\* finally block closes the connection and the function ends.
AnalyzeUpdateReady(d) ==
    /\ analysis[d].pc = "update_ready"
    /\ \E outcome \in {"ok", "not_applied", "applied_then_raised"},
          close \in {"ok", "failed"} :
        /\ datasets' =
            IF /\ outcome # "not_applied"
               /\ datasets[d] # NoRecord
               /\ datasets[d].user_id = analysis[d].user
            THEN [datasets EXCEPT ![d] = ReadyUpdate(datasets[d], fileData[d])]
            ELSE datasets
        /\ analysis' = [analysis EXCEPT ![d] =
            IF outcome = "ok"
            THEN [analysis[d] EXCEPT !.pc = AnalyzerExit("none", close)]
            ELSE [analysis[d] EXCEPT !.pc = "on_error", !.failed_step = "update"]]
    /\ UNCHANGED <<blobs, fileData, upload, firstRun, apiVars>>

\* except Exception: update({"status": "error"}).eq('id', dataset_id), then
\* the finally block; conn is None when the connection set-up failed.
AnalyzeOnError(d) ==
    /\ analysis[d].pc = "on_error"
    /\ \E outcome \in {"ok", "failed"}, close \in {"ok", "failed"} :
        /\ datasets' =
            IF outcome = "ok" /\ datasets[d] # NoRecord
            THEN [datasets EXCEPT ![d] = ErrorUpdate(datasets[d])]
            ELSE datasets
        /\ analysis' = [analysis EXCEPT ![d].err_update = outcome,
                ![d].pc = AnalyzerExit(outcome,
                    IF analysis[d].failed_step = "connect" THEN "ok" ELSE close)]
    /\ UNCHANGED <<blobs, fileData, upload, firstRun, apiVars>>

----------------------------------------------------------------------------
(* delete_dataset *)

\* get_dataset_from_db: the record with this id and this owner, if any.
OwnedBy(d, user) == datasets[d] # NoRecord /\ datasets[d].user_id = user

\* csv_path = dataset["blob_path"].replace(".parquet", ".csv")
CsvBackupPath(blob_path) == Replace(blob_path, ".parquet", ".csv")

\* delete_from_blob: the store after the call. Any exception (the blob does
\* not exist, the service failed) is logged and swallowed.
DeleteFromBlob(store, blob_path, outcome) ==
    IF outcome = "ok" THEN RemoveBlob(store, BlobNameOfUrl(blob_path)) ELSE store

\* delete_dataset after the ownership check: the two blob deletions, whose
\* failures are swallowed, then the deletion of the row, which may raise.
DeleteEffect(d, first, backup, row) ==
    LET rec == datasets[d]
        afterFirst == DeleteFromBlob(blobs, rec.blob_path, first)
        afterBackup ==
            IF rec.storage_format = "parquet"
            THEN DeleteFromBlob(afterFirst, CsvBackupPath(rec.blob_path), backup)
            ELSE afterFirst
    IN  /\ blobs' = afterBackup
        /\ datasets' = IF row = "ok"
                       THEN [datasets EXCEPT ![d] = NoRecord]
                       ELSE datasets

\* DELETE /datasets/{dataset_id}: the handler has no await, it runs as one
\* step of the event loop. 404 for a record that is not the caller's.
DeleteDataset(d, user) ==
    /\ OwnedBy(d, user)
    /\ \E first \in {"ok", "failed"}, backup \in {"ok", "failed"},
          row \in {"ok", "failed"} : DeleteEffect(d, first, backup, row)
    /\ UNCHANGED <<fileData, upload, analysis, firstRun, apiVars>>

----------------------------------------------------------------------------
(* merge_datasets *)

Range(f) == {f[i] : i \in DOMAIN f}

\* set(ds['columns']) != first_cols for some ds in datasets[1:]
SchemaMismatch(recs) ==
    \E i \in 2 .. Len(recs) : Range(recs[i].columns) # Range(recs[1].columns)

RECURSIVE SumRows(_)
SumRows(tables) ==
    IF tables = <<>> THEN 0 ELSE Head(tables).rows + SumRows(Tail(tables))

\* The record merge_datasets inserts; it has no updated_at key, so the column
\* stays NULL.
MergedRecord(user, merged_name, url, first, total_rows, now) ==
    [ status |-> "ready", user_id |-> user,
      filename |-> merged_name \o <<".parquet">>,
      blob_path |-> url, storage_format |-> "parquet",
      row_count |-> total_rows, column_count |-> Len(first.columns),
      columns |-> first.columns, error_message |-> NULL,
      created_at |-> now, updated_at |-> NULL ]

\* The next unused merge id.
MergeId ==
    LET free == {m \in MergeSlots :
                    fileData[IdStr[m]] = NoData /\ datasets[IdStr[m]] = NoRecord}
    IN  IF free = {} THEN NULL
        ELSE IdStr[CHOOSE m \in free : \A n \in free : m <= n]

\* merge_datasets from the UNION ALL on: the merged blob is written, then the
\* record is inserted, which may raise. DuckDB's UNION ALL needs every input
\* blob to be readable and of the same number of columns.
MergeEffect(ids, merged_name, user, insert) ==
    LET recs == [i \in DOMAIN ids |-> datasets[ids[i]]]
        mid == MergeId
    IN  /\ mid # NULL
        /\ \A i \in DOMAIN ids :
             /\ BlobExists(blobs, BlobNameOfUrl(recs[i].blob_path))
             /\ Len(fileData[ids[i]].cols) = Len(fileData[ids[1]].cols)
        /\ LET name == BlobName(mid, merged_name \o <<".parquet">>)
               total == SumRows([i \in DOMAIN ids |-> fileData[ids[i]]])
           IN  /\ blobs' = PutBlob(blobs, name, "parquet")
               /\ fileData' = [fileData EXCEPT ![mid] =
                     Table(fileData[ids[1]].cols, total)]
               /\ datasets' =
                     IF insert = "ok"
                     THEN [datasets EXCEPT ![mid] =
                             MergedRecord(user, merged_name, BlobUrl(name),
                                          recs[1], total, Now(mid))]
                     ELSE datasets

\* POST /datasets/merge, a handler without await. It answers 400 for fewer
\* than two ids or differing column sets, 404 for an id that is not the
\* caller's, 500 when DuckDB, the blob upload or the insert raises; of these
\* only the last leaves something behind (the merged blob).
MergeDatasets(ids, merged_name, user) ==
    /\ Len(ids) >= 2
    /\ \A i \in DOMAIN ids : OwnedBy(ids[i], user)
    /\ ~SchemaMismatch([i \in DOMAIN ids |-> datasets[ids[i]]])
    /\ \E insert \in {"ok", "failed"} : MergeEffect(ids, merged_name, user, insert)
    /\ UNCHANGED <<upload, analysis, firstRun, apiVars>>

----------------------------------------------------------------------------
(* A second run of the analyzer for the same record (a retried task) *)

Snapshot(rec) ==
    IF rec = NoRecord THEN NoRecord
    ELSE [ status |-> rec.status, row_count |-> rec.row_count,
           column_count |-> rec.column_count, columns |-> rec.columns ]

RetryAnalysis(d) ==
    /\ analysis[d].pc = "returned"
    /\ analysis[d].runs < MaxRuns
    /\ datasets[d] # NoRecord
    /\ firstRun' = IF analysis[d].runs = 1
                   THEN [firstRun EXCEPT ![d] = Snapshot(datasets[d])]
                   ELSE firstRun
    /\ analysis' = [analysis EXCEPT ![d].pc = "scheduled",
                                    ![d].failed_step = "none",
                                    ![d].err_update = "none",
                                    ![d].runs = analysis[d].runs + 1]
    /\ UNCHANGED <<datasets, blobs, fileData, upload, apiVars>>

----------------------------------------------------------------------------
(* validate_sql_safety *)

\* A SQL text is the sequence of its characters.
LowerChars ==
    <<"a", "b", "c", "d", "e", "f", "g", "h", "i", "j", "k", "l", "m", "n",
      "o", "p", "q", "r", "s", "t", "u", "v", "w", "x", "y", "z">>
UpperChars ==
    <<"A", "B", "C", "D", "E", "F", "G", "H", "I", "J", "K", "L", "M", "N",
      "O", "P", "Q", "R", "S", "T", "U", "V", "W", "X", "Y", "Z">>

\* str.upper(), character by character.
UpperChar(c) ==
    IF \E i \in DOMAIN LowerChars : LowerChars[i] = c
    THEN UpperChars[CHOOSE i \in DOMAIN LowerChars : LowerChars[i] = c]
    ELSE c
ToUpper(s) == [i \in DOMAIN s |-> UpperChar(s[i])]

\* "k in s" for strings: k occurs in s as a substring.
Contains(s, k) ==
    \E i \in 1 .. (Len(s) - Len(k) + 1) : SubSeq(s, i, i + Len(k) - 1) = k

\* str.strip(): leading and trailing white space removed.
Strip(s) ==
    LET ink == {i \in DOMAIN s : s[i] # " "}
    IN  IF ink = {} THEN <<>>
        ELSE SubSeq(s, CHOOSE i \in ink : \A j \in ink : i <= j,
                       CHOOSE i \in ink : \A j \in ink : j <= i)

\* str.startswith
StartsWith(s, k) == Len(s) >= Len(k) /\ SubSeq(s, 1, Len(k)) = k

Kw_SELECT ==
    <<"S", "E", "L", "E", "C", "T">>

DANGEROUS_SQL_KEYWORDS ==
    << <<"D", "R", "O", "P">>,
       <<"D", "E", "L", "E", "T", "E">>,
       <<"I", "N", "S", "E", "R", "T">>,
       <<"U", "P", "D", "A", "T", "E">>,
       <<"T", "R", "U", "N", "C", "A", "T", "E">>,
       <<"A", "L", "T", "E", "R">>,
       <<"C", "R", "E", "A", "T", "E">>,
       <<"G", "R", "A", "N", "T">>,
       <<"R", "E", "V", "O", "K", "E">>,
       <<"E", "X", "E", "C", "U", "T", "E">>,
       <<"P", "R", "A", "G", "M", "A">>,
       <<"A", "T", "T", "A", "C", "H">>,
       <<"D", "E", "T", "A", "C", "H">> >>

\* The (is_safe, error_msg) validate_sql_safety returns: the first keyword of
\* the list that occurs anywhere in the upper-cased text rejects it, then a
\* text that does not start with SELECT is rejected.
ValidateSqlSafety(sql) ==
    LET sql_upper == ToUpper(sql)
        hits == {i \in DOMAIN DANGEROUS_SQL_KEYWORDS :
                    Contains(sql_upper, DANGEROUS_SQL_KEYWORDS[i])}
    IN  IF hits # {}
        THEN [ is_safe |-> FALSE,
               error_msg |-> << "Dangerous SQL keyword detected: ",
                   DANGEROUS_SQL_KEYWORDS[CHOOSE i \in hits : \A j \in hits : i <= j] >> ]
        ELSE IF ~StartsWith(Strip(sql_upper), Kw_SELECT)
        THEN [ is_safe |-> FALSE,
               error_msg |-> << "Only SELECT queries are allowed" >> ]
        ELSE [ is_safe |-> TRUE, error_msg |-> <<>> ]

\* The queries handed to validate_sql_safety: a statement, then nothing, a
\* clause or an injected text.

\* "SELECT * FROM data"
Sql_SelectAll ==
    <<"S", "E", "L", "E", "C", "T", " ", "*", " ", "F", "R", "O", "M", " ",
      "d", "a", "t", "a">>

\* "SELECT COUNT(*) FROM data"
Sql_SelectCount ==
    <<"S", "E", "L", "E", "C", "T", " ", "C", "O", "U", "N", "T", "(", "*",
      ")", " ", "F", "R", "O", "M", " ", "d", "a", "t", "a">>

\* "SELECT revenue, COUNT(*) FROM data GROUP BY revenue"
Sql_SelectGroupBy ==
    <<"S", "E", "L", "E", "C", "T", " ", "r", "e", "v", "e", "n", "u", "e",
      ",", " ", "C", "O", "U", "N", "T", "(", "*", ")", " ", "F", "R", "O",
      "M", " ", "d", "a", "t", "a", " ", "G", "R", "O", "U", "P", " ", "B",
      "Y", " ", "r", "e", "v", "e", "n", "u", "e">>

\* "WITH cte AS (SELECT * FROM data) SELECT * FROM cte"
Sql_WithCte ==
    <<"W", "I", "T", "H", " ", "c", "t", "e", " ", "A", "S", " ", "(", "S",
      "E", "L", "E", "C", "T", " ", "*", " ", "F", "R", "O", "M", " ", "d",
      "a", "t", "a", ")", " ", "S", "E", "L", "E", "C", "T", " ", "*", " ",
      "F", "R", "O", "M", " ", "c", "t", "e">>

\* "select * from data"
Sql_SelectLower ==
    <<"s", "e", "l", "e", "c", "t", " ", "*", " ", "f", "r", "o", "m", " ",
      "d", "a", "t", "a">>

\* " SELECT * FROM data"
Sql_SelectPadded ==
    <<" ", "S", "E", "L", "E", "C", "T", " ", "*", " ", "F", "R", "O", "M",
      " ", "d", "a", "t", "a">>

\* "SELECT created_at FROM data"
Sql_SelectCreatedAt ==
    <<"S", "E", "L", "E", "C", "T", " ", "c", "r", "e", "a", "t", "e", "d",
      "_", "a", "t", " ", "F", "R", "O", "M", " ", "d", "a", "t", "a">>

\* " LIMIT 100"
Tail_Limit ==
    <<" ", "L", "I", "M", "I", "T", " ", "1", "0", "0">>

\* "; DROP TABLE users;"
Tail_StackedDrop ==
    <<";", " ", "D", "R", "O", "P", " ", "T", "A", "B", "L", "E", " ", "u",
      "s", "e", "r", "s", ";">>

\* " WHERE id = 1 OR 1=1"
Tail_Tautology ==
    <<" ", "W", "H", "E", "R", "E", " ", "i", "d", " ", "=", " ", "1", " ",
      "O", "R", " ", "1", "=", "1">>

\* "; DELETE FROM users;"
Tail_StackedDelete ==
    <<";", " ", "D", "E", "L", "E", "T", "E", " ", "F", "R", "O", "M", " ",
      "u", "s", "e", "r", "s", ";">>

\* " UNION SELECT * FROM users"
Tail_UnionSelect ==
    <<" ", "U", "N", "I", "O", "N", " ", "S", "E", "L", "E", "C", "T", " ",
      "*", " ", "F", "R", "O", "M", " ", "u", "s", "e", "r", "s">>

\* "; drop table users;"
Tail_StackedDropLower ==
    <<";", " ", "d", "r", "o", "p", " ", "t", "a", "b", "l", "e", " ", "u",
      "s", "e", "r", "s", ";">>

\* " WHERE id = 1"
Tail_Where ==
    <<" ", "W", "H", "E", "R", "E", " ", "i", "d", " ", "=", " ", "1">>

SqlHeads ==
    { Sql_SelectAll,
      Sql_SelectCount,
      Sql_SelectGroupBy,
      Sql_WithCte,
      Sql_SelectLower,
      Sql_SelectPadded,
      Sql_SelectCreatedAt }

SqlTails ==
    { <<>>, Tail_Limit,
      Tail_StackedDrop,
      Tail_Tautology,
      Tail_StackedDelete,
      Tail_UnionSelect,
      Tail_StackedDropLower,
      Tail_Where }

Queries == {h \o t : h \in SqlHeads, t \in SqlTails}

\* validate_sql_safety(sql) runs and returns.
ValidateSql ==
    /\ sqlcheck.pc = "called"
    /\ sqlcheck' = [ pc |-> "returned", sql |-> sqlcheck.sql,
                     is_safe |-> ValidateSqlSafety(sqlcheck.sql).is_safe,
                     error_msg |-> ValidateSqlSafety(sqlcheck.sql).error_msg ]
    /\ UNCHANGED <<datasets, blobs, fileData, upload, analysis, firstRun, response,
                   limiter, states, pool, logst, usage>>

----------------------------------------------------------------------------
(* The dataset endpoints: every one starts with get_dataset_from_db *)

GetDatasetFromDb_AnyOwner(d, user, lookup) ==
    IF lookup = "raised"
    THEN [code |-> 500, detail |-> "Database error", rec |-> NoRecord]
    ELSE IF datasets[d] # NoRecord
    THEN [code |-> 200, detail |-> NULL, rec |-> datasets[d]]
    ELSE [code |-> 404, detail |-> "DATASET_NOT_FOUND", rec |-> NoRecord]

\* get_dataset_from_db(dataset_id, user_id): the row with this id and this
\* user_id, NotFoundError("DATASET_NOT_FOUND") (404) when the select gives no
\* row, HTTPException 500 "Database error" when the select raises.
GetDatasetFromDb(d, user, lookup) ==
    IF lookup = "raised"
    THEN [code |-> 500, detail |-> "Database error", rec |-> NoRecord]
    ELSE IF OwnedBy(d, user)
    THEN [code |-> 200, detail |-> NULL, rec |-> datasets[d]]
    ELSE [code |-> 404, detail |-> "DATASET_NOT_FOUND", rec |-> NoRecord]

\* The answer of an endpoint: status code, detail, and the ids of the
\* datasets whose record or rows the body carries.
Respond(op, user, ids, code, detail, data) ==
    [ op |-> op, user |-> user, ids |-> ids, code |-> code, detail |-> detail,
      data |-> data ]

\* The answer when get_dataset_from_db raised: its HTTPException as it is,
\* its NotFoundError through jetdb_exception_handler.
Refused(op, user, ids, found, ctx) ==
    IF found.detail \in ErrorCodes
    THEN LET a == JetdbExceptionHandler(found.detail, found.code, ctx)
         IN  Respond(op, user, ids, a.code, a.detail, {})
    ELSE Respond(op, user, ids, found.code, found.detail, {})

Readable(rec) == BlobExists(blobs, BlobNameOfUrl(rec.blob_path))

\* The texts and formats the callers send.
SqlInputs == { Sql_SelectAll \o Tail_Limit, Sql_SelectAll \o Tail_StackedDrop }
ExportFormats == { "csv", "json" }

\* The handlers below have no await before they answer: the event loop runs
\* them one at a time, and the answer is gone once it has been sent.
SendResponse ==
    /\ response # NoResponse
    /\ response' = NoResponse
    /\ UNCHANGED <<datasets, blobs, fileData, upload, analysis, firstRun,
                   sqlcheck, limiter, states, pool, logst, usage>>

\* GET /datasets/{dataset_id}
GetDataset(d, user) ==
    /\ response = NoResponse
    /\ \E ctx \in LogContexts, lookup \in {"answered", "raised"} :
        LET found == GetDatasetFromDb(d, user, lookup)
        IN  response' =
                IF found.code # 200 THEN Refused("get", user, <<d>>, found, ctx)
                ELSE Respond("get", user, <<d>>, 200, "dataset", {d})
    /\ UNCHANGED <<datasets, blobs, fileData, upload, analysis, firstRun,
                   sqlcheck, limiter, states, pool, logst, usage>>

\* GET /datasets/{dataset_id}/preview
PreviewDataset(d, user) ==
    /\ response = NoResponse
    /\ \E ctx \in LogContexts, lookup \in {"answered", "raised"}, read \in {"ok", "raised"} :
        LET found == GetDatasetFromDb(d, user, lookup)
        IN  response' =
                IF found.code # 200 THEN Refused("preview", user, <<d>>, found, ctx)
                ELSE IF read = "ok" /\ Readable(found.rec)
                THEN Respond("preview", user, <<d>>, 200, "preview", {d})
                ELSE Respond("preview", user, <<d>>, 500, "Preview failed", {})
    /\ UNCHANGED <<datasets, blobs, fileData, upload, analysis, firstRun,
                   sqlcheck, limiter, states, pool, logst, usage>>

\* GET /datasets/{dataset_id}/rows
GetDatasetRows(d, user) ==
    /\ response = NoResponse
    /\ \E ctx \in LogContexts, lookup \in {"answered", "raised"}, read \in {"ok", "raised"} :
        LET found == GetDatasetFromDb(d, user, lookup)
        IN  response' =
                IF found.code # 200 THEN Refused("rows", user, <<d>>, found, ctx)
                ELSE IF read = "ok" /\ Readable(found.rec)
                THEN Respond("rows", user, <<d>>, 200, "rows", {d})
                ELSE Respond("rows", user, <<d>>, 500, "Failed to fetch rows", {})
    /\ UNCHANGED <<datasets, blobs, fileData, upload, analysis, firstRun,
                   sqlcheck, limiter, states, pool, logst, usage>>

\* POST /query/sql: ownership, then validate_sql_safety, then the query.
ExecuteSql(d, user, sql) ==
    /\ response = NoResponse
    /\ \E ctx \in LogContexts, lookup \in {"answered", "raised"}, read \in {"ok", "raised"} :
        LET found == GetDatasetFromDb(d, user, lookup)
            checked == ValidateSqlSafety(sql)
        IN  response' =
                IF found.code # 200 THEN Refused("query_sql", user, <<d>>, found, ctx)
                ELSE IF ~checked.is_safe
                THEN Respond("query_sql", user, <<d>>, 400, checked.error_msg, {})
                ELSE IF read = "ok" /\ Readable(found.rec)
                THEN Respond("query_sql", user, <<d>>, 200, "rows", {d})
                ELSE Respond("query_sql", user, <<d>>, 400, "Query failed", {})
    /\ UNCHANGED <<datasets, blobs, fileData, upload, analysis, firstRun,
                   sqlcheck, limiter, states, pool, logst, usage>>

\* POST /query/natural: ownership, the schema and sample are read, the
\* generated SQL is validated, then run.
NaturalLanguageQuery(d, user, sql) ==
    /\ response = NoResponse
    /\ \E ctx \in LogContexts, lookup \in {"answered", "raised"}, read \in {"ok", "raised"} :
        LET found == GetDatasetFromDb(d, user, lookup)
            checked == ValidateSqlSafety(sql)
        IN  response' =
                IF found.code # 200
                THEN Refused("query_natural", user, <<d>>, found, ctx)
                ELSE IF ~(read = "ok" /\ Readable(found.rec))
                THEN Respond("query_natural", user, <<d>>, 500, "Query failed", {})
                ELSE IF ~checked.is_safe
                THEN Respond("query_natural", user, <<d>>, 400, checked.error_msg, {})
                ELSE Respond("query_natural", user, <<d>>, 200, "rows", {d})
    /\ UNCHANGED <<datasets, blobs, fileData, upload, analysis, firstRun,
                   sqlcheck, limiter, states, pool, logst, usage>>

\* GET /export/{dataset_id}
ExportDataset(d, user, format) ==
    /\ response = NoResponse
    /\ \E ctx \in LogContexts, lookup \in {"answered", "raised"}, read \in {"ok", "raised"} :
        LET found == GetDatasetFromDb(d, user, lookup)
        IN  response' =
                IF found.code # 200 THEN Refused("export", user, <<d>>, found, ctx)
                ELSE IF format # "csv"
                THEN Respond("export", user, <<d>>, 400, "Only CSV export supported", {})
                ELSE IF read = "ok" /\ Readable(found.rec)
                THEN Respond("export", user, <<d>>, 200, "csv", {d})
                ELSE Respond("export", user, <<d>>, 500, "Export failed", {})
    /\ UNCHANGED <<datasets, blobs, fileData, upload, analysis, firstRun,
                   sqlcheck, limiter, states, pool, logst, usage>>

\* DELETE /datasets/{dataset_id} with its answer.
DeleteDatasetCall(d, user) ==
    /\ response = NoResponse
    /\ \E ctx \in LogContexts, lookup \in {"answered", "raised"}, first \in {"ok", "failed"},
          backup \in {"ok", "failed"}, row \in {"ok", "failed"} :
        LET found == GetDatasetFromDb(d, user, lookup)
        IN  IF found.code # 200
            THEN /\ response' = Refused("delete", user, <<d>>, found, ctx)
                 /\ UNCHANGED <<datasets, blobs>>
            ELSE /\ DeleteEffect(d, first, backup, row)
                 /\ response' =
                        IF row = "ok"
                        THEN Respond("delete", user, <<d>>, 200,
                                     "Dataset deleted successfully", {})
                        ELSE Respond("delete", user, <<d>>, 500, "Delete failed", {})
    /\ UNCHANGED <<fileData, upload, analysis, firstRun, sqlcheck, limiter,
                   states, pool, logst, usage>>

\* POST /datasets/merge with its answer: the length check, the ownership
\* loop over dataset_ids in order, the schema check, then the merge.
MergeDatasetsCall(ids, merged_name, user) ==
    /\ response = NoResponse
    /\ \E ctx \in LogContexts, lookups \in [DOMAIN ids -> {"answered", "raised"}],
          work \in {"ok", "merge_failed", "insert_failed"} :
        LET found == [i \in DOMAIN ids |-> GetDatasetFromDb(ids[i], user, lookups[i])]
            bad == {i \in DOMAIN ids : found[i].code # 200}
            kept == /\ response' = Respond("merge", user, ids, 500, "Merge failed", {})
                    /\ UNCHANGED <<datasets, blobs, fileData>>
        IN  IF Len(ids) < 2
            THEN /\ response' = Respond("merge", user, ids, 400,
                                        "Need at least 2 datasets to merge", {})
                 /\ UNCHANGED <<datasets, blobs, fileData>>
            ELSE IF bad # {}
            THEN /\ response' = Refused("merge", user, ids,
                        found[CHOOSE i \in bad : \A j \in bad : i <= j], ctx)
                 /\ UNCHANGED <<datasets, blobs, fileData>>
            ELSE IF SchemaMismatch([i \in DOMAIN ids |-> found[i].rec])
            THEN /\ response' = Respond("merge", user, ids, 400, "Schema mismatch", {})
                 /\ UNCHANGED <<datasets, blobs, fileData>>
            ELSE IF work = "merge_failed" \/ \E i \in DOMAIN ids : ~Readable(found[i].rec)
            THEN kept
            ELSE /\ MergeEffect(ids, merged_name, user,
                                IF work = "ok" THEN "ok" ELSE "failed")
                 /\ response' =
                        IF work = "ok"
                        THEN Respond("merge", user, ids, 200, "merged", {MergeId})
                        ELSE Respond("merge", user, ids, 500, "Merge failed", {})
    /\ UNCHANGED <<upload, analysis, firstRun, sqlcheck, limiter,
                   states, pool, logst, usage>>

----------------------------------------------------------------------------
(* rate_limiter: slowapi's Limiter with key_func get_user_id_from_request *)

\* The request object as the handlers and the limiter see it: the
\* request-id middleware is the only code that sets an attribute of
\* request.state; get_current_user returns the user id and stores nothing.
RequestOf(client) ==
    [ client_host |-> client.ip, state |-> [request_id |-> "rid"] ]

\* get_user_id_from_request: "user:<id>" when request.state has a user_id,
\* else "ip:<remote address>".
GetUserIdFromRequest(request) ==
    IF "user_id" \in DOMAIN request.state /\ request.state.user_id # NULL
    THEN <<"user:", request.state.user_id>>
    ELSE <<"ip:", request.client_host>>

\* The limit of the decorator of each endpoint, per hour.
RateLimit(e) ==
    CASE e = "upload" -> UPLOAD_RATE_LIMIT
      [] e = "query_natural" -> AI_QUERY_RATE_LIMIT
      [] e = "query_sql" -> SQL_QUERY_RATE_LIMIT

RECURSIVE SumFn(_, _)
SumFn(f, S) ==
    IF S = {} THEN 0
    ELSE LET x == CHOOSE y \in S : TRUE IN f[x] + SumFn(f, S \ {x})

Admitted == SumFn([e \in Endpoints |-> SumFn(limiter.hits[e], Keys)], Endpoints)

\* A request of an authenticated client to a rate-limited endpoint: admitted
\* and counted under its key while the key's count is below the limit, else
\* refused (RateLimitExceeded).
LimitedRequest(e, client) ==
    /\ Admitted < MaxRequests
    /\ LET key == GetUserIdFromRequest(RequestOf(client))
       IN  limiter' =
            IF limiter.hits[e][key] < RateLimit(e)
            THEN [limiter EXCEPT !.hits[e][key] = @ + 1,
                                 !.served[e][client.user] = @ + 1,
                                 !.answer = "admitted"]
            ELSE [limiter EXCEPT !.answer = "refused"]
    /\ UNCHANGED <<datasets, blobs, fileData, upload, analysis, firstRun, response,
                   sqlcheck, states, pool, logst, usage>>

\* strategy="fixed-window": at the end of the hour the counts of the
\* endpoint start again from zero.
WindowExpires(e) ==
    /\ \E k \in Keys : limiter.hits[e][k] > 0
    /\ limiter' = [limiter EXCEPT !.hits[e] = [k \in Keys |-> 0],
                                  !.served[e] = [u \in Users |-> 0],
                                  !.answer = "none"]
    /\ UNCHANGED <<datasets, blobs, fileData, upload, analysis, firstRun, response,
                   sqlcheck, states, pool, logst, usage>>

----------------------------------------------------------------------------
(* state_endpoints.py over supabase_helpers.py: the spreadsheet states *)

\* The state_data objects the callers send.
StateData == {"S1", "S2"}

\* An exception on its way out of a try block, and none.
Exc(type, code, detail) == [type |-> type, code |-> code, detail |-> detail]
NoExc == Exc("none", 0, NULL)

\* get_user_id: request.state.user_id, HTTPException 401 without one.
GetUserId(request) ==
    IF "user_id" \in DOMAIN request.state /\ request.state.user_id # NULL
    THEN [user_id |-> request.state.user_id, exc |-> NoExc]
    ELSE [user_id |-> NULL,
          exc |-> Exc("HTTPException", 401, "Authentication required")]

\* The rows of 'spreadsheet_states' with this dataset_id and user_id.
StateRows(d, user) == {x \in states : x.dataset_id = d /\ x.user_id = user}

\* upsert(data, on_conflict="dataset_id,user_id")
Upsert(rows, row) ==
    {x \in rows : ~(x.dataset_id = row.dataset_id /\ x.user_id = row.user_id)}
        \cup {row}

\* The row save_spreadsheet_state writes.
StateRow(d, user, state_data) ==
    [ dataset_id |-> d, user_id |-> user, state_data |-> state_data,
      updated_at |-> <<"t", state_data>> ]

\* save_spreadsheet_state up to its upsert: PermissionError when
\* verify_dataset_ownership says no, any exception of a store call as it is.
SaveSpreadsheetStateRaises(d, user, lookup, write) ==
    IF lookup = "raised" THEN Exc("Exception", 0, "select datasets")
    ELSE IF ~OwnedBy(d, user) THEN Exc("PermissionError", 0, "not the owner")
    ELSE IF write = "raised" THEN Exc("Exception", 0, "upsert")
    ELSE NoExc

\* The answer of a state endpoint: as Respond, with the calls the handler
\* made on the state store and the exception that ended its try block.
StateRespond(op, user, d, answer, data, store, exc) ==
    [ op |-> op, user |-> user, ids |-> <<d>>, code |-> answer.code,
      detail |-> answer.detail, data |-> data, store |-> store,
      raised |-> exc.type ]

\* The except clauses of save_state.
SaveStateExcept(exc, ctx) ==
    IF exc.type = "PermissionError"
    THEN JetdbExceptionHandler("FORBIDDEN_DATASET_ACCESS", 403, ctx)
    ELSE [code |-> 500, detail |-> "Failed to save spreadsheet state"]

\* The except clauses of load_state.
LoadStateExcept(exc, ctx) ==
    IF exc.type \in {"AuthorizationError", "NotFoundError"}
    THEN JetdbExceptionHandler(exc.detail, exc.code, ctx)
    ELSE [code |-> 500, detail |-> "Failed to load spreadsheet state"]

\* The except clauses of clear_state.
ClearStateExcept(exc, ctx) ==
    IF exc.type = "NotFoundError"
    THEN JetdbExceptionHandler(exc.detail, exc.code, ctx)
    ELSE [code |-> 500, detail |-> "Failed to clear spreadsheet state"]

\* The except clauses of get_state_metadata.
StateMetadataExcept(exc, ctx) ==
    IF exc.type = "AuthorizationError"
    THEN JetdbExceptionHandler(exc.detail, exc.code, ctx)
    ELSE [code |-> 500, detail |-> "Failed to get state metadata"]

\* logger.info(..., extra={"request_id": ..., ...}) inside the try block.
LogInfoRaises(ctx) ==
    IF ExtraCollides(ctx # "base")
    THEN Exc("KeyError", 0, "Attempt to overwrite 'request_id' in LogRecord")
    ELSE NoExc

\* POST /datasets/{dataset_id}/save-state
SaveState(d, client, state_data) ==
    /\ response = NoResponse
    /\ \E ctx \in LogContexts, lookup \in {"answered", "raised"},
          write \in {"ok", "raised"} :
        LET auth == GetUserId(RequestOf(client))
            exc == IF auth.exc # NoExc THEN auth.exc
                   ELSE IF LogInfoRaises(ctx) # NoExc THEN LogInfoRaises(ctx)
                   ELSE SaveSpreadsheetStateRaises(d, auth.user_id, lookup, write)
            wrote == exc = NoExc \/ (exc.type = "Exception" /\ exc.detail = "upsert")
        IN  IF exc = NoExc
            THEN /\ states' = Upsert(states, StateRow(d, auth.user_id, state_data))
                 /\ response' = StateRespond("save_state", client.user, d,
                        [code |-> 200, detail |-> "state"], {state_data}, {"upsert"}, exc)
            ELSE /\ UNCHANGED states
                 /\ response' = StateRespond("save_state", client.user, d,
                        SaveStateExcept(exc, ctx), {},
                        IF wrote THEN {"upsert"} ELSE {}, exc)
    /\ UNCHANGED <<datasets, blobs, fileData, upload, analysis, firstRun,
                   sqlcheck, limiter, pool, logst, usage>>

\* GET /datasets/{dataset_id}/load-state
LoadState(d, client) ==
    /\ response = NoResponse
    /\ \E ctx \in LogContexts, lookup \in {"answered", "raised"},
          read \in {"ok", "raised"} :
        LET auth == GetUserId(RequestOf(client))
            rows == StateRows(d, auth.user_id)
            before == IF auth.exc # NoExc THEN auth.exc
                      ELSE IF LogInfoRaises(ctx) # NoExc THEN LogInfoRaises(ctx)
                      ELSE IF lookup = "raised"
                      THEN Exc("Exception", 0, "select datasets")
                      ELSE IF ~OwnedBy(d, auth.user_id)
                      THEN Exc("AuthorizationError", 403, "FORBIDDEN_DATASET_ACCESS")
                      ELSE NoExc
            exc == IF before # NoExc THEN before
                   ELSE IF read = "raised" THEN Exc("Exception", 0, "select states")
                   ELSE IF rows = {} THEN Exc("NotFoundError", 404, "STATE_NOT_FOUND")
                   ELSE NoExc
        IN  response' =
                IF exc = NoExc
                THEN StateRespond("load_state", client.user, d,
                        [code |-> 200, detail |-> "state"],
                        {x.state_data : x \in rows}, {"select"}, exc)
                ELSE StateRespond("load_state", client.user, d,
                        LoadStateExcept(exc, ctx), {},
                        IF before = NoExc THEN {"select"} ELSE {}, exc)
    /\ UNCHANGED <<datasets, blobs, fileData, upload, analysis, firstRun,
                   sqlcheck, limiter, states, pool, logst, usage>>

\* DELETE /datasets/{dataset_id}/clear-state
ClearState(d, client) ==
    /\ response = NoResponse
    /\ \E ctx \in LogContexts, delete \in {"ok", "raised"} :
        LET auth == GetUserId(RequestOf(client))
            rows == StateRows(d, auth.user_id)
            before == IF auth.exc # NoExc THEN auth.exc ELSE LogInfoRaises(ctx)
            exc == IF before # NoExc THEN before
                   ELSE IF delete = "raised" THEN Exc("Exception", 0, "delete states")
                   ELSE IF rows = {} THEN Exc("NotFoundError", 404, "STATE_NOT_FOUND")
                   ELSE NoExc
        IN  IF exc = NoExc
            THEN /\ states' = states \ rows
                 /\ response' = StateRespond("clear_state", client.user, d,
                        [code |-> 200,
                         detail |-> "Spreadsheet state cleared successfully"],
                        {}, {"delete"}, exc)
            ELSE /\ UNCHANGED states
                 /\ response' = StateRespond("clear_state", client.user, d,
                        ClearStateExcept(exc, ctx), {},
                        IF before = NoExc THEN {"delete"} ELSE {}, exc)
    /\ UNCHANGED <<datasets, blobs, fileData, upload, analysis, firstRun,
                   sqlcheck, limiter, pool, logst, usage>>

\* GET /datasets/{dataset_id}/state-metadata
GetStateMetadata(d, client) ==
    /\ response = NoResponse
    /\ \E ctx \in LogContexts, lookup \in {"answered", "raised"},
          read \in {"ok", "raised"} :
        LET auth == GetUserId(RequestOf(client))
            rows == StateRows(d, auth.user_id)
            before == IF auth.exc # NoExc THEN auth.exc
                      ELSE IF lookup = "raised"
                      THEN Exc("Exception", 0, "select datasets")
                      ELSE IF ~OwnedBy(d, auth.user_id)
                      THEN Exc("AuthorizationError", 403, "FORBIDDEN_DATASET_ACCESS")
                      ELSE NoExc
            exc == IF before # NoExc THEN before
                   ELSE IF read = "raised" THEN Exc("Exception", 0, "select states")
                   ELSE NoExc
        IN  response' =
                IF exc = NoExc
                THEN StateRespond("state_metadata", client.user, d,
                        [code |-> 200,
                         detail |-> IF rows = {} THEN "has_state false"
                                    ELSE "has_state true"],
                        {}, {"select"}, exc)
                ELSE StateRespond("state_metadata", client.user, d,
                        StateMetadataExcept(exc, ctx), {},
                        IF before = NoExc THEN {"select"} ELSE {}, exc)
    /\ UNCHANGED <<datasets, blobs, fileData, upload, analysis, firstRun,
                   sqlcheck, limiter, states, pool, logst, usage>>

(***************************************************************************)
(* main.py: the worker pool and the shutdown of the server                 *)
(*                                                                         *)
(* Every blob upload and every conversion is a function handed to          *)
(* 'executor' by run_in_executor. The pool keeps submitted functions in a  *)
(* queue; at most max_workers threads take them from it, one function per  *)
(* thread at a time. executor.shutdown(wait=True) refuses further          *)
(* functions, lets the threads empty the queue and returns when they have  *)
(* all ended. A function that is running has written part of its blob.     *)
(***************************************************************************)
PoolFunctions == {"upload_to_blob_streaming", "convert_csv_to_parquet_streaming"}

TasksAt(at) == {t \in PoolTasks : pool.task[t].at = at}

Unfinished == TasksAt("queued") \cup TasksAt("running")

\* loop.run_in_executor(executor, fn, ...): the function joins the queue;
\* a pool that is shut down raises instead and takes nothing.
RunInExecutor(t, fn) ==
    /\ pool.task[t].at = "none"
    /\ \A t2 \in PoolTasks : t2 < t => pool.task[t2].at # "none"
    /\ pool.shutdown = "no"
    /\ pool' = [pool EXCEPT !.task[t] = [fn |-> fn, at |-> "queued"]]
    /\ UNCHANGED <<datasets, blobs, fileData, upload, analysis, firstRun, response,
                   sqlcheck, limiter, states, logst, usage>>

\* A thread of the pool takes the function at the head of the queue; the
\* pool has max_workers threads.
WorkerTakes(t) ==
    /\ pool.task[t].at = "queued"
    /\ \A t2 \in TasksAt("queued") : t <= t2
    /\ Cardinality(TasksAt("running")) < MAX_WORKERS
    /\ pool.shutdown # "done"
    /\ pool' = [pool EXCEPT !.task[t].at = "running"]
    /\ UNCHANGED <<datasets, blobs, fileData, upload, analysis, firstRun, response,
                   sqlcheck, limiter, states, logst, usage>>

\* The function returns or raises: its thread is free again.
TaskEnds(t) ==
    /\ pool.task[t].at = "running"
    /\ pool.shutdown # "done"
    /\ pool' = [pool EXCEPT !.task[t].at = "done"]
    /\ UNCHANGED <<datasets, blobs, fileData, upload, analysis, firstRun, response,
                   sqlcheck, limiter, states, logst, usage>>

\* shutdown_event: executor.shutdown(wait=True) is called. 'pending' keeps
\* how many functions were queued or running at that moment.
ShutdownEvent ==
    /\ pool.shutdown = "no"
    /\ pool' = [pool EXCEPT !.shutdown = "waiting",
                            !.pending = Cardinality(Unfinished)]
    /\ UNCHANGED <<datasets, blobs, fileData, upload, analysis, firstRun, response,
                   sqlcheck, limiter, states, logst, usage>>

\* ShutdownReturns without wait=True: shutdown returns at once.
ShutdownReturns_NoWait ==
    /\ pool.shutdown = "waiting"
    /\ pool' = [pool EXCEPT !.shutdown = "done"]
    /\ UNCHANGED <<datasets, blobs, fileData, upload, analysis, firstRun, response,
                   sqlcheck, limiter, states, logst, usage>>

\* wait=True: shutdown joins the threads, which end when the queue is empty
\* and their function is over; then shutdown_event logs and returns.
ShutdownReturns ==
    /\ pool.shutdown = "waiting"
    /\ Unfinished = {}
    /\ pool' = [pool EXCEPT !.shutdown = "done"]
    /\ UNCHANGED <<datasets, blobs, fileData, upload, analysis, firstRun, response,
                   sqlcheck, limiter, states, logst, usage>>

(***************************************************************************)
(* main.py: add_request_id_middleware over the logging module              *)
(*                                                                         *)
(* The record factory is one global of the process. The middleware reads   *)
(* it, installs a closure that calls the factory it read and then sets     *)
(* record.request_id, awaits the rest of the application, and puts back    *)
(* the factory it read. Requests are coroutines of one event loop: between *)
(* the installing and the putting back of one request, others run.         *)
(***************************************************************************)
\* What the exception handlers of request r find when they log with
\* extra={"request_id": ...}: jetdb_exception_handler runs inside the
\* middleware, generic_exception_handler after it has put old_factory back.
LogContextOf(r) ==
    IF logst.factory = LogRecord THEN "base"
    ELSE IF logst.req[r].old_factory = LogRecord THEN "stamped"
    ELSE "stamped_after"

\* old_factory = logging.getLogRecordFactory();
\* logging.setLogRecordFactory(record_factory); then await call_next.
EnterMiddleware(r) ==
    /\ logst.req[r].pc = "new"
    /\ \A r2 \in Requests : r2 < r => logst.req[r2].pc # "new"
    /\ logst' = [logst EXCEPT !.factory = r,
                              !.req[r].pc = "handling",
                              !.req[r].old_factory = logst.factory]
    /\ UNCHANGED <<datasets, blobs, fileData, upload, analysis, firstRun, response,
                   sqlcheck, limiter, states, pool, usage>>

\* A logger call of the endpoint that handles r. The record's request_id is
\* set by the closure installed last, after its inner factories; LogRecord
\* sets none and RequestIdFilter then writes 'startup'.
HandlerLogs(r) ==
    /\ logst.req[r].pc = "handling"
    /\ logst' = [logst EXCEPT !.req[r].logged = logst.factory]
    /\ UNCHANGED <<datasets, blobs, fileData, upload, analysis, firstRun, response,
                   sqlcheck, limiter, states, pool, usage>>

\* call_next is over: the endpoint returned, or raised a JetDBException
\* that the exception handlers answer. The middleware logs 'Request
\* completed' or 'Request failed', and finally:
\* logging.setLogRecordFactory(old_factory).
LeaveMiddleware(r, raises) ==
    /\ logst.req[r].pc = "handling"
    /\ logst' = [logst EXCEPT
           !.factory = logst.req[r].old_factory,
           !.req[r].pc = "done",
           !.req[r].logged = logst.factory,
           !.req[r].answer =
               IF raises
               THEN JetdbExceptionHandler("DATASET_NOT_FOUND", 404,
                                          LogContextOf(r)).detail
               ELSE "ok"]
    /\ UNCHANGED <<datasets, blobs, fileData, upload, analysis, firstRun, response,
                   sqlcheck, limiter, states, pool, usage>>

(***************************************************************************)
(* supabase_helpers.py: increment_upload_count                             *)
(*                                                                         *)
(* The function reads the user's row of 'user_usage' and then writes:      *)
(* an update of every row of the user with the count it read plus one, or  *)
(* an insert of a row with count 1 when it read none. Both are requests to *)
(* the store, which serves the server processes that share the table in    *)
(* any order; the function has no await, so the calls of one process run   *)
(* one after the other. Each request to the store can raise (an insert,    *)
(* for one, where the table refuses a second row for a user); the function *)
(* then logs and returns 0.                                                *)
(***************************************************************************)
\* A process is inside the function: between its select and its write.
InCall(p) ==
    \E c \in Calls : usage.call[c].proc = p /\ usage.call[c].pc = "selected"

\* try: supabase.table("user_usage").select("upload_count").eq(...).execute()
\* current_count is the count of result.data[0], or -1 for an empty result.
SelectUploadCount(c, p, u, raises) ==
    /\ usage.call[c].pc = "none"
    /\ \A c2 \in Calls : c2 < c => usage.call[c2].pc # "none"
    /\ ~InCall(p)
    /\ usage' = [usage EXCEPT
           !.store_error = @ \/ raises,
           !.call[c] =
               IF raises
               THEN [pc |-> "done", proc |-> p, user |-> u,
                     current_count |-> -1, ret |-> 0]
               ELSE [pc |-> "selected", proc |-> p, user |-> u,
                     current_count |->
                         IF usage.rows[u] = <<>> THEN -1 ELSE usage.rows[u][1],
                     ret |-> -1]]
    /\ UNCHANGED <<datasets, blobs, fileData, upload, analysis, firstRun, response,
                   sqlcheck, limiter, states, pool, logst>>

\* if result.data: update upload_count = current_count + 1 where user_id
\* matches; else: insert a row with upload_count 1. return new_count, or 0
\* from the except clause.
WriteUploadCount(c, raises) ==
    LET u == usage.call[c].user
        current_count == usage.call[c].current_count
        new_count == IF current_count >= 0 THEN current_count + 1 ELSE 1
    IN  /\ usage.call[c].pc = "selected"
        /\ usage' = [usage EXCEPT
               !.store_error = @ \/ raises,
               !.rows[u] =
                   IF raises THEN @
                   ELSE IF current_count >= 0
                        THEN [i \in 1 .. Len(@) |-> new_count]
                        ELSE Append(@, new_count),
               !.call[c].pc = "done",
               !.call[c].ret = IF raises THEN 0 ELSE new_count]
        /\ UNCHANGED <<datasets, blobs, fileData, upload, analysis, firstRun, response,
                   sqlcheck, limiter, states, pool, logst>>

----------------------------------------------------------------------------
Next ==
    \/ \E r \in UploadSlots :
        \/ UploadStart(r)
        \/ ConvertTask(r)
        \/ CsvUploadTask(r)
        \/ SkipAfterConvert(r)
        \/ SkipAfterCsv(r)
        \/ GatherDone(r)
    \/ \E d \in DatasetIds :
        \/ AnalyzeRead(d)
        \/ AnalyzeUpdateReady(d)
        \/ AnalyzeOnError(d)
    \/ \E d \in DatasetIds, user \in Users : DeleteDataset(d, user)
    \/ \E ids \in MergeLists, name \in MergedNames, user \in Users :
        MergeDatasets(ids, name, user)

Spec == Init /\ [][Next]_vars

\* The program with a retried analysis task.
NextRetry == Next \/ \E d \in DatasetIds : RetryAnalysis(d)

SpecRetry == Init /\ [][NextRetry]_vars

\* The dataset endpoints over a store that holds one analyzed upload of each
\* user.
StoredUpload(id, user, table) ==
    ReadyUpdate(UploadRecord(user, <<"a", ".csv">>,
                             PipelineResult(id, <<"a", ".csv">>, "url"), Now(id)),
                table)

StoredBlobs(id) ==
    { Blob(BlobName(id, <<"a", ".parquet">>), "parquet"),
      Blob(BlobName(id, <<"a", ".csv">>), "csv") }

StoredIds == {IdStr[1], IdStr[2]}
StoredOwner == [d \in StoredIds |-> IF d = IdStr[1] THEN "u1" ELSE "u2"]

InitAccess ==
    /\ \E table \in [StoredIds -> Tables] :
        /\ datasets = [d \in DatasetIds |->
                IF d \in StoredIds
                THEN StoredUpload(d, StoredOwner[d], table[d]) ELSE NoRecord]
        /\ fileData = [d \in DatasetIds |->
                IF d \in StoredIds THEN table[d] ELSE NoData]
    /\ blobs = UNION {StoredBlobs(d) : d \in StoredIds}
    /\ upload = [r \in UploadSlots |-> IdleUpload]
    /\ analysis = [d \in DatasetIds |-> IdleAnalysis]
    /\ firstRun = [d \in DatasetIds |-> NoRecord]
    /\ response = NoResponse
    /\ sqlcheck = NoCheck
    /\ limiter = NoHits
    /\ SvcIdle

NextAccess ==
    \/ \E d \in DatasetIds, user \in Users :
        \/ GetDataset(d, user)
        \/ PreviewDataset(d, user)
        \/ GetDatasetRows(d, user)
        \/ \E sql \in SqlInputs : ExecuteSql(d, user, sql)
        \/ \E sql \in SqlInputs : NaturalLanguageQuery(d, user, sql)
        \/ \E format \in ExportFormats : ExportDataset(d, user, format)
        \/ DeleteDatasetCall(d, user)
    \/ \E ids \in MergeLists, name \in MergedNames, user \in Users :
        MergeDatasetsCall(ids, name, user)
    \/ SendResponse

SpecAccess == InitAccess /\ [][NextAccess]_vars

\* The rate limiter alone.
InitLimiter ==
    /\ datasets = [d \in DatasetIds |-> NoRecord]
    /\ blobs = {}
    /\ fileData = [d \in DatasetIds |-> NoData]
    /\ upload = [r \in UploadSlots |-> IdleUpload]
    /\ analysis = [d \in DatasetIds |-> IdleAnalysis]
    /\ firstRun = [d \in DatasetIds |-> NoRecord]
    /\ response = NoResponse
    /\ sqlcheck = NoCheck
    /\ limiter = NoHits
    /\ SvcIdle

NextLimiter ==
    \/ \E e \in Endpoints, client \in Clients : LimitedRequest(e, client)
    \/ \E e \in Endpoints : WindowExpires(e)

SpecLimiter == InitLimiter /\ [][NextLimiter]_vars

\* validate_sql_safety alone, called with each of the queries.
InitSql ==
    /\ datasets = [d \in DatasetIds |-> NoRecord]
    /\ blobs = {}
    /\ fileData = [d \in DatasetIds |-> NoData]
    /\ upload = [r \in UploadSlots |-> IdleUpload]
    /\ analysis = [d \in DatasetIds |-> IdleAnalysis]
    /\ firstRun = [d \in DatasetIds |-> NoRecord]
    /\ response = NoResponse
    /\ \E q \in Queries : sqlcheck = [NoCheck EXCEPT !.pc = "called", !.sql = q]
    /\ limiter = NoHits
    /\ SvcIdle

NextSql == ValidateSql

SpecSql == InitSql /\ [][NextSql]_vars

\* The spreadsheet-state endpoints, with the deletion of datasets, over the
\* store of SpecAccess; no state has been saved.
NextState ==
    \/ \E d \in DatasetIds, client \in Clients :
        \/ \E state_data \in StateData : SaveState(d, client, state_data)
        \/ LoadState(d, client)
        \/ ClearState(d, client)
        \/ GetStateMetadata(d, client)
    \/ \E d \in DatasetIds, user \in Users : DeleteDatasetCall(d, user)
    \/ SendResponse

SpecState == InitAccess /\ [][NextState]_vars

\* The worker pool alone: functions are submitted, run and end, and the
\* server is shut down at any moment.
NextPool ==
    \/ \E t \in PoolTasks, fn \in PoolFunctions : RunInExecutor(t, fn)
    \/ \E t \in PoolTasks : WorkerTakes(t)
    \/ \E t \in PoolTasks : TaskEnds(t)
    \/ ShutdownEvent
    \/ ShutdownReturns

SpecPool == Init /\ [][NextPool]_vars

\* Requests passing through the request-id middleware, interleaved as the
\* event loop interleaves them.
NextLogging ==
    \/ \E r \in Requests : EnterMiddleware(r)
    \/ \E r \in Requests : HandlerLogs(r)
    \/ \E r \in Requests, raises \in BOOLEAN : LeaveMiddleware(r, raises)

SpecLogging == Init /\ [][NextLogging]_vars

\* Calls of increment_upload_count from the server processes.
NextUsage ==
    \/ \E c \in Calls, p \in Procs, u \in Users, raises \in BOOLEAN :
           SelectUploadCount(c, p, u, raises)
    \/ \E c \in Calls, raises \in BOOLEAN : WriteUploadCount(c, raises)

SpecUsage == Init /\ [][NextUsage]_vars

----------------------------------------------------------------------------
(* Claims *)

Exists(d) == datasets[d] # NoRecord
InFlight(r) == upload[r].pc \in {"skip_convert", "skip_csv", "gather"}
Bytes(size) == size.mb * MiB + size.rem
CsvBlobName(r) == BlobName(IdStr[r], upload[r].filename)

\* C1: every record whose status is 'ready' has row_count >= 0, a non-empty
\* columns list and len(columns) = column_count.
C1_ReadyIsAnalyzed ==
    \A d \in DatasetIds :
        datasets[d].status = "ready" =>
            /\ datasets[d].row_count >= 0
            /\ datasets[d].columns # <<>>
            /\ Len(datasets[d].columns) = datasets[d].column_count

\* C2: every record whose status is 'error' carries a non-empty
\* error_message.
C2_ErrorHasMessage ==
    \A d \in DatasetIds :
        datasets[d].status = "error" =>
            datasets[d].error_message \notin {NULL, ""}

\* C3: 'ready' and 'error' are terminal: no step changes the status of a
\* record that is 'ready' or 'error' and is still there after the step.
C3_TerminalStatus ==
    [][\A d \in DatasetIds :
        (datasets[d].status \in {"ready", "error"} /\ datasets'[d] # NoRecord)
            => datasets'[d].status = datasets[d].status]_vars

\* C4: when upload_file inserts a record, a blob of the record's
\* storage_format exists at the record's blob_path.
C4_InsertedRecordHasBlob ==
    [][\A r \in UploadSlots :
        (datasets[IdStr[r]] = NoRecord /\ datasets'[IdStr[r]] # NoRecord) =>
            \E b \in blobs' :
                /\ b.name = BlobNameOfUrl(datasets'[IdStr[r]].blob_path)
                /\ b.kind = datasets'[IdStr[r]].storage_format]_vars

C4_Witness ==
    \E r \in UploadSlots :
        /\ upload[r].code = 200
        /\ upload[r].path = "parallel"
        /\ upload[r].parquet_task = "failed"
        /\ Exists(IdStr[r])
        /\ datasets[IdStr[r]].storage_format = "csv"

\* C5 as stated: an upload of at least 100 MB (exactly 100 MB included) takes
\* the skip-backup path, a smaller one the parallel path.
C5_SkipAtOrAboveThreshold ==
    \A r \in UploadSlots :
        InFlight(r) =>
            (upload[r].path = "skip"
                <=> Bytes(upload[r].size) >= SKIP_CSV_THRESHOLD_MB * MiB)

\* C5 amended: an upload of more than 100 MB takes the skip-backup path, where
\* no backup upload runs beside the conversion; an upload of at most 100 MB
\* (exactly 100 MB included) takes the parallel path, where both tasks are
\* submitted.
C5_SkipAboveThreshold ==
    \A r \in UploadSlots :
        InFlight(r) =>
            /\ upload[r].path = "skip"
                <=> Bytes(upload[r].size) > SKIP_CSV_THRESHOLD_MB * MiB
            /\ upload[r].pc = "skip_convert" => upload[r].csv_task = "none"
            /\ upload[r].path = "parallel" =>
                /\ upload[r].pc = "gather"
                /\ upload[r].csv_task # "none"
                /\ upload[r].parquet_task # "none"

C5_Witness ==
    \E r \in UploadSlots :
        /\ InFlight(r)
        /\ Bytes(upload[r].size) = SKIP_CSV_THRESHOLD_MB * MiB
        /\ upload[r].path = "parallel"

\* C6 as stated: on the skip-backup path, once the pipeline is done, the CSV
\* was uploaded if and only if the conversion failed: conversion succeeded
\* gives no CSV blob and the result 'parquet', conversion failed gives the
\* CSV uploaded and the result 'csv'.
C6_CsvUploadedIffConversionFailed ==
    \A r \in UploadSlots :
        (upload[r].path = "skip" /\ upload[r].pc = "done") =>
            /\ upload[r].parquet_task = "url" =>
                /\ upload[r].csv_task = "none"
                /\ ~BlobExists(blobs, CsvBlobName(r))
                /\ upload[r].result = "parquet"
            /\ upload[r].parquet_task = "failed" =>
                /\ upload[r].csv_task = "url"
                /\ upload[r].result = "csv"

\* C6 amended: on the skip-backup path the upload of the CSV is started if
\* and only if the conversion failed. Conversion succeeded: no CSV blob is
\* ever written for the id and the result is 'parquet'. Conversion failed: the
\* CSV upload is attempted, the result is 'csv' when it succeeds, and the call
\* raises when it fails.
C6_CsvAttemptedIffConversionFailed ==
    \A r \in UploadSlots :
        upload[r].path = "skip" =>
            /\ upload[r].csv_task # "none" => upload[r].parquet_task = "failed"
            /\ upload[r].parquet_task = "url" => ~BlobExists(blobs, CsvBlobName(r))
            /\ upload[r].pc = "done" =>
                \/ /\ upload[r].parquet_task = "url"
                   /\ upload[r].result = "parquet"
                \/ /\ upload[r].parquet_task = "failed"
                   /\ upload[r].csv_task = "url"
                   /\ upload[r].result = "csv"
                \/ /\ upload[r].parquet_task = "failed"
                   /\ upload[r].csv_task = "exc"
                   /\ upload[r].result = "raised"

C6_Witness ==
    \E r \in UploadSlots :
        /\ upload[r].path = "skip"
        /\ upload[r].pc = "done"
        /\ upload[r].parquet_task = "failed"
        /\ upload[r].csv_task = "url"
        /\ upload[r].result = "csv"

\* C7: when delete_dataset removes a record, the blob at its blob_path and,
\* for a Parquet record, the CSV backup are gone from the object store.
C7_DeleteRemovesBlobs ==
    [][\A d \in DatasetIds :
        (datasets[d] # NoRecord /\ datasets'[d] = NoRecord) =>
            /\ ~BlobExists(blobs', BlobNameOfUrl(datasets[d].blob_path))
            /\ datasets[d].storage_format = "parquet" =>
                ~BlobExists(blobs', BlobName(d, datasets[d].filename))]_vars

\* C8 as stated: a record whose analysis failed at any step has status
\* 'error' once the analyzer is done.
C8_FailureSurfacesAsError ==
    \A d \in DatasetIds :
        (/\ analysis[d].pc = "returned"
         /\ analysis[d].failed_step # "none"
         /\ Exists(d))
            => datasets[d].status = "error"

\* C8 amended: a record whose analysis failed at any step has status 'error'
\* once the analyzer is done, provided the handler's 'error' update was
\* applied.
C8_FailureSurfacesWhenErrorUpdateApplied ==
    \A d \in DatasetIds :
        (/\ analysis[d].pc = "returned"
         /\ analysis[d].failed_step # "none"
         /\ analysis[d].err_update = "ok"
         /\ Exists(d))
            => datasets[d].status = "error"

C8_Witness ==
    \E d \in DatasetIds :
        /\ analysis[d].pc = "returned"
        /\ analysis[d].failed_step = "update"
        /\ analysis[d].err_update = "ok"
        /\ Exists(d)
        /\ datasets[d].status = "error"

\* C9: analyze_dataset_background never raises to its caller, whichever of
\* its steps fails, the 'error' update and the close included.
C9_AnalyzerNeverRaises ==
    \A d \in DatasetIds : analysis[d].pc # "raised"

C9_Witness ==
    \E d \in DatasetIds :
        /\ analysis[d].pc = "returned"
        /\ analysis[d].failed_step # "none"
        /\ analysis[d].err_update = "failed"

\* C10: a second run of the analyzer for a record the first run brought to
\* 'ready' or 'error' leaves status, row_count, column_count and columns as
\* the first run left them, or all four as one complete run writes them:
\* never a subset of them overwritten.
C10_SecondRunChangesNothing ==
    \A d \in DatasetIds :
        (/\ analysis[d].runs >= 2
         /\ analysis[d].pc = "returned"
         /\ Exists(d)
         /\ firstRun[d].status \in {"ready", "error"})
            => \/ Snapshot(datasets[d]) = firstRun[d]
               \/ Snapshot(datasets[d]) =
                    Snapshot(ReadyUpdate(datasets[d], fileData[d]))

\* C11: when COUNT(*) fails while the blob itself is readable, the analyzer
\* does not mark the record 'error': it substitutes an estimate for row_count
\* and the record is 'ready' once the analyzer is done.
C11_CountFailureIsEstimated ==
    \A d \in DatasetIds :
        (/\ analysis[d].pc = "returned"
         /\ analysis[d].runs = 1
         /\ analysis[d].failed_step = "count"
         /\ BlobExists(blobs, BlobNameOfUrl(analysis[d].url))
         /\ Exists(d))
            => datasets[d].status = "ready"

\* C12: every step that writes a record sets updated_at: an insert stores
\* created_at and updated_at, an update of an existing record stores a new
\* updated_at and leaves created_at as it was.
C12_EveryMutationSetsUpdatedAt ==
    [][\A d \in DatasetIds :
        (datasets'[d] # datasets[d] /\ datasets'[d] # NoRecord) =>
            /\ datasets'[d].updated_at # NULL
            /\ datasets[d] = NoRecord => datasets'[d].created_at # NULL
            /\ datasets[d] # NoRecord =>
                /\ datasets'[d].updated_at # datasets[d].updated_at
                /\ datasets'[d].created_at = datasets[d].created_at]_vars

\* C16: validate_sql_safety rejects every injection attempt: a stacked second
\* statement after ';' (DROP, DELETE), a WHERE clause with the tautology
\* 'OR 1=1', an appended 'UNION SELECT' from another table.
C16_InjectionRejected ==
    (/\ sqlcheck.pc = "returned"
     /\ \E h \in SqlHeads,
           t \in {Tail_StackedDrop, Tail_StackedDelete, Tail_Tautology,
                  Tail_UnionSelect} : sqlcheck.sql = h \o t)
        => ~sqlcheck.is_safe

\* C17: validate_sql_safety accepts every valid read-only query: a plain
\* SELECT with LIMIT, an aggregate SELECT with GROUP BY, a WITH common-table
\* expression followed by SELECT.
C17_ReadOnlyAccepted ==
    (/\ sqlcheck.pc = "returned"
     /\ sqlcheck.sql \in {Sql_SelectAll \o Tail_Limit, Sql_SelectCount,
                          Sql_SelectGroupBy, Sql_WithCte})
        => sqlcheck.is_safe

\* The call answered by this step named a record that belongs to someone else.
Foreign(d, user) == datasets[d] # NoRecord /\ datasets[d].user_id # user
CalledOnForeign ==
    /\ response'.op # "none"
    /\ \E i \in DOMAIN response'.ids : Foreign(response'.ids[i], response'.user)

Digits == {"0", "1", "2", "3", "4", "5", "6", "7", "8", "9"}
Letters == Range(LowerChars) \cup Range(UpperChars)
SafeIdentifier(name) ==
    /\ name # <<>>
    /\ name[1] \notin Digits
    /\ \A i \in DOMAIN name : name[i] \in Letters \cup Digits \cup {"_", "-"}

\* C14: the column list the analyzer stores for an upload is sanitized: it
\* has the length of the header, its entries are pairwise distinct ignoring
\* case, and each entry is a non-empty safe identifier.
C14_StoredColumnsAreSanitized ==
    \A r \in UploadSlots :
        LET d == IdStr[r]
            cols == datasets[d].columns
        IN  (datasets[d].status = "ready" /\ analysis[d].failed_step = "none") =>
                /\ Len(cols) = Len(fileData[d].cols)
                /\ \A i \in DOMAIN cols : SafeIdentifier(cols[i])
                /\ \A i, j \in DOMAIN cols :
                        i # j => ToUpper(cols[i]) # ToUpper(cols[j])

\* C15: the schema the analyzer resolves comes from the first parsing strategy
\* whose sample has at least one column and at least one row (and a non-null
\* cell); when no strategy gives such a sample the resolution fails, so a
\* record the analyzer made 'ready' was read from a file with a column and
\* a row.
C15_ResolvedSampleIsUsable ==
    \A r \in UploadSlots :
        LET d == IdStr[r]
        IN  (datasets[d].status = "ready" /\ analysis[d].failed_step = "none") =>
                /\ Len(fileData[d].cols) >= 1
                /\ fileData[d].rows >= 1

\* C18: a POST /upload whose file name does not end in '.csv' is answered 400
\* with a body whose 'detail' says the file type is invalid, and leaves no
\* blob and no record for the request.
C18_InvalidTypeAnswered400WithDetail ==
    \A r \in UploadSlots :
        (upload[r].pc = "done" /\ ~EndsWith(upload[r].filename, ".csv")) =>
            /\ upload[r].code = 400
            /\ "detail" \in DOMAIN upload[r].body
            /\ upload[r].body.detail = ERROR_MESSAGES["INVALID_FILE_TYPE"]
            /\ ~Exists(IdStr[r])
            /\ \A b \in blobs : b.name[1] # IdStr[r]

\* C19: POST /query/sql admits at most 10 requests of one client in one
\* window: the 11th is refused.
C19_SqlAdmitsAtMostTen ==
    \A k \in Keys : limiter.hits["query_sql"][k] <= 10

\* C20: the quotas are counted per authenticated user: whatever addresses the
\* requests come from, a user is admitted at most RateLimit(e) times in one
\* window, and a user whose own count is below the limit is admitted,
\* whoever else shares the address.
C20_QuotaPerUser ==
    \A e \in Endpoints, client \in Clients :
        /\ limiter.served[e][client.user] <= RateLimit(e)
        /\ limiter.served[e][client.user] < RateLimit(e) =>
                limiter.hits[e][GetUserIdFromRequest(RequestOf(client))]
                    < RateLimit(e)

\* A state endpoint has answered a request that carried no user id.
StateOps == {"save_state", "load_state", "clear_state", "state_metadata"}
AnsweredUnauthenticated ==
    /\ response.op \in StateOps
    /\ \A client \in Clients :
        client.user = response.user => GetUserId(RequestOf(client)).exc # NoExc

\* C21: a state endpoint called without an authenticated user id answers 401
\* 'Authentication required' and makes no call on the state store.
C21_NoUserIdAnswered401 ==
    AnsweredUnauthenticated =>
        /\ response.code = 401
        /\ response.detail = "Authentication required"
        /\ response.store = {}

\* The rows a state call was about, and whether its caller owns the dataset.
CallRows == StateRows(response.ids[1], response.user)
CallByOwner == OwnedBy(response.ids[1], response.user)
StoreFailed == response.raised = "Exception"

\* C22: save-state by the owner of a dataset stores the state it was sent,
\* replacing the one stored before, so that there is at most one row per
\* (dataset, user); load-state by the owner returns the stored state. Only
\* a failing store call makes either fail.
C22_SaveLoadRoundTrip ==
    /\ \A d \in DatasetIds, u \in Users : Cardinality(StateRows(d, u)) <= 1
    /\ (response.op = "save_state" /\ CallByOwner) =>
            \/ StoreFailed
            \/ /\ response.code = 200
               /\ response.data # {}
               /\ {x.state_data : x \in CallRows} = response.data
    /\ (response.op = "load_state" /\ CallByOwner /\ CallRows # {}) =>
            \/ StoreFailed
            \/ /\ response.code = 200
               /\ {x.state_data : x \in CallRows} = response.data

\* C23: clear-state removes the caller's state of the dataset, so that a
\* load-state after it answers 404 STATE_NOT_FOUND; clear-state answers 404
\* STATE_NOT_FOUND when there is no such state. Only a failing store call
\* makes either fail otherwise.
C23_ClearedStateIsNotFound ==
    /\ (response.op = "clear_state" /\ response.code = 200) => CallRows = {}
    /\ (response.op = "clear_state" /\ response.code # 200 /\ CallRows = {}) =>
            \/ StoreFailed
            \/ /\ response.code = 404
               /\ response.detail = "STATE_NOT_FOUND"
    /\ (response.op = "load_state" /\ CallByOwner /\ CallRows = {}) =>
            \/ StoreFailed
            \/ /\ response.code = 404
               /\ response.detail = "STATE_NOT_FOUND"

\* C24: on the parallel path parallel_upload_and_convert has neither returned
\* nor raised to upload_file while the backup upload or the conversion is
\* still running: once the request is answered both tasks are over.
C24_GatherWaitsForBoth ==
    \A r \in UploadSlots :
        (upload[r].pc = "done" /\ upload[r].path = "parallel") =>
            /\ upload[r].csv_task # "running"
            /\ upload[r].parquet_task # "running"

\* C25: the temporary copy of the uploaded file is there as long as a
\* worker-pool task that reads it is running.
C25_TempFileOutlivesReaders ==
    \A r \in UploadSlots :
        (upload[r].csv_task = "running" \/ upload[r].parquet_task = "running")
            => upload[r].temp

\* The analysis of the record of request r has been scheduled.
Scheduled(r) == analysis[IdStr[r]].pc # "none"

\* C26: the analysis of an upload is scheduled only by a request whose insert
\* succeeded, at a step at whose end the record is in the table, and at most
\* once.
C26_AnalysisFollowsInsert ==
    /\ [](\A r \in UploadSlots :
            Scheduled(r) =>
                /\ upload[r].pc = "done"
                /\ upload[r].code = 200
                /\ analysis[IdStr[r]].runs = 1)
    /\ [][\A r \in UploadSlots :
            (~Scheduled(r) /\ Scheduled(r)') =>
                /\ datasets'[IdStr[r]] # NoRecord
                /\ datasets[IdStr[r]] = NoRecord]_vars

C26_Witness ==
    \E r \in UploadSlots :
        /\ analysis[IdStr[r]].pc = "scheduled"
        /\ Exists(IdStr[r])
        /\ upload[r].code = 200

\* C28: a POST /upload that ended with an error has left no record with its
\* dataset id and no blob under that id.
C28_FailedUploadLeavesNothing ==
    \A r \in UploadSlots :
        (upload[r].pc = "done" /\ upload[r].code # 200) =>
            /\ ~Exists(IdStr[r])
            /\ \A b \in blobs : b.name[1] # IdStr[r]

\* C27: the pool never runs more than max_workers (4) functions at once, and
\* once shutdown_event has returned no function that had been submitted is
\* still queued or running, so none is left with a partly written blob.
C27_ShutdownDrainsBoundedPool ==
    /\ Cardinality(TasksAt("running")) <= MAX_WORKERS
    /\ pool.shutdown = "done" => Unfinished = {}

\* Shutdown began with more functions in flight than the pool has threads
\* (four running, one at least queued), and it has returned.
C27_Witness ==
    /\ pool.shutdown = "done"
    /\ pool.pending > MAX_WORKERS
    /\ Cardinality(TasksAt("done")) > MAX_WORKERS

\* C29: every log record made while request r is handled carries r's
\* request id, whatever other requests are in flight, and once every
\* request has completed the record factory is again the one from before
\* any request.
C29_RequestIdIsolated ==
    /\ \A r \in Requests : logst.req[r].logged \in {-1, r}
    /\ (\A r \in Requests : logst.req[r].pc = "done")
           => logst.factory = LogRecord

\* The calls of increment_upload_count for user u that have returned.
Returned(u) ==
    {c \in Calls : usage.call[c].pc = "done" /\ usage.call[c].user = u}

\* C30: when every call begun has returned and no request to the store
\* raised, each user counted has exactly one usage row, its upload_count is
\* the number of calls made for the user, and the calls returned the
\* distinct values 1 .. that number.
C30_EveryCallCounted ==
    (/\ \A c \in Calls : usage.call[c].pc \in {"none", "done"}
     /\ ~usage.store_error)
        => \A u \in Users :
               LET n == Cardinality(Returned(u))
               IN  n > 0 =>
                       /\ usage.rows[u] = <<n>>
                       /\ {usage.call[c].ret : c \in Returned(u)} = 1 .. n

====
